---------------------------- MODULE Spec2Model ----------------------------
(***************************************************************************)
(* A model of the database-chatbot front end (React components Chat,       *)
(* ChatWindow, MessageInput, ResultsTable) and of the conversational       *)
(* query engine behind its /query endpoint.                                *)
(*                                                                         *)
(* JavaScript strings are TLA+ strings, handled character by character     *)
(* (Head, Tail, SubSeq and \o work on strings in TLC).  A handler runs to  *)
(* completion up to its next `await`, so each action is the synchronous    *)
(* part of a handler: from its start to its first await, or from the       *)
(* resumption after an await to its end.                                   *)
(***************************************************************************)
EXTENDS Integers, Sequences, FiniteSets, TLC

(***************************************************************************)
(* Bounds of the model.                                                    *)
(***************************************************************************)
\* user turns (submitted queries) per chat session
MaxQueries == 2
\* autocomplete requests in flight at once
MaxPending == 2
\* the configured maximum turn count of a conversation context
MaxContextTurns == 4

(***************************************************************************)
(* JavaScript string primitives.                                           *)
(***************************************************************************)
WhiteSpace == {" ", "\t", "\n"}

UpperLetters == "ABCDEFGHIJKLMNOPQRSTUVWXYZ"
LowerLetters == "abcdefghijklmnopqrstuvwxyz"

\* position of character c in string s, 0 when absent
RECURSIVE IndexOfChar(_, _, _)
IndexOfChar(c, s, i) ==
    IF i > Len(s) THEN 0
    ELSE IF SubSeq(s, i, i) = c THEN i
    ELSE IndexOfChar(c, s, i + 1)

LowerChar(c) ==
    LET i == IndexOfChar(c, UpperLetters, 1)
    IN  IF i = 0 THEN c ELSE SubSeq(LowerLetters, i, i)

\* String.prototype.toLowerCase
RECURSIVE toLowerCase(_)
toLowerCase(s) ==
    IF s = "" THEN "" ELSE LowerChar(Head(s)) \o toLowerCase(Tail(s))

RECURSIVE trimStart(_)
trimStart(s) ==
    IF s = "" THEN ""
    ELSE IF Head(s) \in WhiteSpace THEN trimStart(Tail(s))
    ELSE s

RECURSIVE trimEnd(_)
trimEnd(s) ==
    IF s = "" THEN ""
    ELSE IF SubSeq(s, Len(s), Len(s)) \in WhiteSpace
         THEN trimEnd(SubSeq(s, 1, Len(s) - 1))
    ELSE s

\* String.prototype.trim
trim(s) == trimEnd(trimStart(s))

\* Array.prototype.includes on an array of strings (strict equality)
includes(arr, x) == \E i \in 1..Len(arr) : arr[i] = x

(***************************************************************************)
(* JavaScript values of a result row.  typeof is the tag t; a number       *)
(* carries n, a string carries s.                                          *)
(***************************************************************************)
Num(n) == [t |-> "number", n |-> n, s |-> ""]
Str(x) == [t |-> "string", n |-> 0, s |-> x]
Null == [t |-> "object", n |-> 0, s |-> ""]
typeof(v) == v.t

\* a row object: its own enumerable properties in insertion order
Cell(key, value) == [k |-> key, v |-> value]

(***************************************************************************)
(* A chat message: { type, content }.  content is a string for the types   *)
(* user, sql, analysis and error, and the array of rows for results; the   *)
(* two are kept in the fields content and rows.                            *)
(***************************************************************************)
TextMessage(type, content) == [type |-> type, content |-> content, rows |-> <<>>]
ResultsMessage(results) == [type |-> "results", content |-> "", rows |-> results]

(***************************************************************************)
(* Chat.js: the module constant VALID_QUESTIONS.                           *)
(***************************************************************************)
VALID_QUESTIONS ==
    << "Show all employees",
       "What are the top 5 highest paid employees?",
       "How many employees are in each department?",
       "What is the average salary?",
       "How many employees are in each department?",
       "Show employees hired in 2020",
       "List departments with more than 2 employees" >>

(***************************************************************************)
(* Chat.js, handleQuery: the simulated answers.  The query, lower-cased,   *)
(* is compared with seven literals in this order; a match answers after    *)
(* an 800 ms timer without calling the back end.  Scores of the first      *)
(* table are written in tenths (35 for 3.5).                               *)
(***************************************************************************)
DemoQueries ==
    << "performance score trend",
       "how many employees in each department",
       "what is the average salary",
       "show all employees",
       "what are the top 5 highest paid employees?",
       "show employees hired in 2020",
       "list departments with more than 2 employees" >>

PeriodRow(p, score) == << Cell("Period", Str(p)), Cell("Performance Score", Num(score)) >>
CountRow(d, c) == << Cell("Department", Str(d)), Cell("Employee Count", Num(c)) >>
SalaryRow(d, a) == << Cell("Department", Str(d)), Cell("Average Salary", Num(a)) >>
EmployeeRow(i, nm, d, sal) ==
    << Cell("id", Num(i)), Cell("name", Str(nm)), Cell("department", Str(d)),
       Cell("salary", Num(sal)) >>
PaidRow(i, nm, sal) == << Cell("id", Num(i)), Cell("name", Str(nm)), Cell("salary", Num(sal)) >>
HiredRow(i, nm, d, h) ==
    << Cell("id", Num(i)), Cell("name", Str(nm)), Cell("department", Str(d)),
       Cell("hire_date", Str(h)) >>

dummyResults(branch) ==
    CASE branch = 1 ->
           << PeriodRow("Jan-Mar", 35), PeriodRow("Apr-Jun", 38), PeriodRow("Jul-Sep", 40),
              PeriodRow("Oct-Dec", 42), PeriodRow("Jan-Mar 2025", 45) >>
      [] branch = 2 ->
           << CountRow("Sales", 150), CountRow("Marketing", 80), CountRow("Engineering", 220),
              CountRow("HR", 50), CountRow("Finance", 100) >>
      [] branch = 3 ->
           << SalaryRow("Finance", 76500), SalaryRow("Human Resources", 65000),
              SalaryRow("IT", 85000), SalaryRow("Marketing", 70000),
              SalaryRow("Sales", 95000), SalaryRow("Research", 82000) >>
      [] branch = 4 ->
           << EmployeeRow(1, "John Doe", "Finance", 75000),
              EmployeeRow(2, "Jane Smith", "HR", 65000),
              EmployeeRow(3, "Alice Johnson", "IT", 85000),
              EmployeeRow(4, "Bob Brown", "Marketing", 70000),
              EmployeeRow(5, "Carol White", "Finance", 78000) >>
      [] branch = 5 ->
           << PaidRow(1, "Alice Johnson", 85000), PaidRow(2, "Carol White", 78000),
              PaidRow(3, "John Doe", 75000), PaidRow(4, "Bob Brown", 70000),
              PaidRow(5, "Jane Smith", 65000) >>
      [] branch = 6 ->
           << HiredRow(1, "John Doe", "Finance", "2020-01-15"),
              HiredRow(4, "Bob Brown", "Marketing", "2020-11-05") >>
      [] branch = 7 ->
           << CountRow("Sales", 150), CountRow("Engineering", 220), CountRow("Finance", 100) >>

demoAnalysis(branch) ==
    CASE branch = 1 -> "Simulated analysis: Performance scores show a positive upward trend over the recent periods."
      [] branch = 2 -> "Simulated analysis: This bar chart shows the distribution of employees across different departments."
      [] branch = 3 -> "Simulated analysis: Average salaries across various departments."
      [] branch = 4 -> "Simulated analysis: Displaying all available employee records."
      [] branch = 5 -> "Simulated analysis: Here are the top 5 highest paid employees based on available data."
      [] branch = 6 -> "Simulated analysis: Displaying employees hired in 2020."
      [] branch = 7 -> "Simulated analysis: Departments with a significant number of employees."

\* the setVisualizationType argument of each branch ("null" is JavaScript null)
demoVisualization(branch) ==
    CASE branch = 1 -> "line"
      [] branch \in {2, 3, 7} -> "bar"
      [] branch \in {4, 5, 6} -> "null"

\* the branch of the if / else-if chain a query takes, 0 for the back-end path
demoBranch(q) ==
    LET hits == {b \in 1..Len(DemoQueries) : toLowerCase(q) = DemoQueries[b]}
    IN  IF hits = {} THEN 0 ELSE CHOOSE b \in hits : \A c \in hits : b <= c

(***************************************************************************)
(* The environment of the front end: what the user can type and what the   *)
(* back end can answer.                                                    *)
(***************************************************************************)
\* texts typed into the input field: a candidate in another letter case and
\* blank input (the candidates themselves are entered by a click on the panel)
TypedTexts == { "show all employees", "  " }

\* response.data of POST /query and /api/query: { sql, results, analysis }
BackendAnswers ==
    { [ sql |-> "SELECT AVG(salary) AS avg_salary FROM employees",
        results |-> << >>,
        analysis |-> "No rows." ],
      [ sql |-> "SELECT id, salary FROM employees",
        results |-> << << Cell("id", Num(1)), Cell("salary", Num(75000)) >> >>,
        analysis |-> "One row." ] }

\* a rejected request: error.response.data.error when the server answered
\* with an error body, no error.response otherwise (network error)
BackendErrors ==
    { [ response |-> TRUE, error |-> "Error generating SQL" ],
      [ response |-> FALSE, error |-> "" ] }

\* response.data.suggestions of POST /api/suggestions
SuggestionLists == { << "Show all employees" >> }

(***************************************************************************)
(* State.                                                                  *)
(*   mounted            the chat component the page renders: "Chat"        *)
(*                      (Chat.js) or "ChatWindow" (ChatWindow.js with      *)
(*                      MessageInput.js); messages, loading and calls are  *)
(*                      the state of the mounted one                       *)
(*   query              Chat: useState('') draft of the input              *)
(*   message            MessageInput: useState('') draft of the input      *)
(*   messages, loading  useState([]), useState(false)                      *)
(*   visualizationType  Chat: useState(null), "null" for null              *)
(*   suggestions        Chat: useState([]), the autocomplete options       *)
(*   suggestionsFor     the input whose request last set suggestions       *)
(*   calls              handleQuery / handleSend invocations suspended at  *)
(*                      their await: the captured query and the demo       *)
(*                      branch taken (0: waiting for the back end)         *)
(*   pending            generateSuggestions invocations suspended at       *)
(*                      their await: the captured input                    *)
(***************************************************************************)
VARIABLES mounted, query, message, messages, loading, visualizationType,
          suggestions, suggestionsFor, calls, pending

(***************************************************************************)
(* State of a ResultsTable.                                                *)
(*   data           the prop data: the rows of a result set                *)
(*   statsAnchorEl  useState(null): whether the statistics menu is open    *)
(*   shownStats     what the open menu shows: calculateStats of every      *)
(*                  column, in column order                                *)
(***************************************************************************)
VARIABLES data, statsAnchorEl, shownStats

statsVars == << data, statsAnchorEl, shownStats >>

chatVars == << mounted, query, message, messages, loading, visualizationType,
               suggestions, suggestionsFor, calls, pending >>

(***************************************************************************)
(* State of the query-generation core of one session (the back end that    *)
(* answers POST /query).                                                   *)
(*   pc          where processQuery is: "idle", "generate" (waiting for    *)
(*               the language model) or "execute" (waiting for the SQL     *)
(*               execution service)                                        *)
(*   queryText   the question of the call in progress                      *)
(*   retryLimit  the N of the retry policy                                 *)
(*   modelLog    the outcomes of the model calls of the current question   *)
(*   candidate   the GeneratedQuery: SQL and verdict                       *)
(*   lastSql     the session's last SQL                                    *)
(*   result      what the last processQuery returned                       *)
(*   trace       the calls made to the validator ("check") and to the      *)
(*               execution service ("execute"), in order                   *)
(*   turns       the Turn sequence of the ConversationContext              *)
(*   maxTurns    the configured maximum turn count                         *)
(*   clock       the timestamp of the last Turn                            *)
(*   evicted     the Turns append has evicted, in order of eviction        *)
(*   entities    the EntityMemory of the ConversationContext               *)
(*   prompt      the prompt PromptBuilder has built for the call in        *)
(*               progress                                                  *)
(***************************************************************************)
VARIABLES pc, queryText, retryLimit, modelLog, candidate, lastSql, result,
          trace, turns, maxTurns, clock, evicted, entities, prompt

coreVars == << pc, queryText, retryLimit, modelLog, candidate, lastSql, result,
               trace, turns, maxTurns, clock, evicted, entities, prompt >>

(***************************************************************************)
(* State of the ConnectPage.                                               *)
(*   form            useState({ server, database, username, password })    *)
(*   errors          useState({}): the message under each field, "" for a  *)
(*                   field without one                                     *)
(*   connectLoading  useState(false): loading of ConnectPage               *)
(*   success         useState(false): the success snackbar is open         *)
(*   errorMsg        useState(''): the text of the error snackbar          *)
(*   sessionStorage  the items db_connected and db_name, "null" for an     *)
(*                   item that was never set                               *)
(*   connects        the POST /api/connect requests in flight: the form    *)
(*                   each was sent with                                    *)
(***************************************************************************)
VARIABLES form, errors, connectLoading, success, errorMsg, sessionStorage, connects

connectVars == << form, errors, connectLoading, success, errorMsg, sessionStorage,
                  connects >>

(***************************************************************************)
(* State of Connect, the database explorer.                                *)
(*   formData         useState({ server, database, username, password })   *)
(*   explorerLoading  useState(false): loading of Connect                  *)
(*   explorerError    useState(null): error of Connect, "null" for null    *)
(*   schema           useState(null): the schema the back end answered     *)
(*   selectedTable    useState(null): "null" for null                      *)
(*   sampleData       useState(null): the sample rows shown                *)
(*   dbConnection     the item dbConnection of the session storage, "null" *)
(*                    while it was never set                               *)
(*   connectCalls     the POST /connect requests in flight: the formData   *)
(*                    each was sent with                                   *)
(*   sampleCalls      the GET /sample/<table> requests in flight: the      *)
(*                    table of each                                        *)
(***************************************************************************)
VARIABLES formData, explorerLoading, explorerError, schema, selectedTable, sampleData,
          dbConnection, connectCalls, sampleCalls

explorerVars == << formData, explorerLoading, explorerError, schema, selectedTable,
                   sampleData, dbConnection, connectCalls, sampleCalls >>

\* what the handlers of one component leave alone: the other components
nonChatVars == << statsVars, coreVars, connectVars, explorerVars >>
nonStatsVars == << chatVars, coreVars, connectVars, explorerVars >>
nonCoreVars == << chatVars, statsVars, connectVars, explorerVars >>
nonConnectVars == << chatVars, statsVars, coreVars, explorerVars >>
nonExplorerVars == << chatVars, statsVars, coreVars, connectVars >>

ChatInit ==
    /\ mounted \in {"Chat", "ChatWindow"}
    /\ query = ""
    /\ message = ""
    /\ messages = << >>
    /\ loading = FALSE
    /\ visualizationType = "null"
    /\ suggestions = << >>
    /\ suggestionsFor = ""
    /\ calls = << >>
    /\ pending = << >>

\* the user turns of the history
UserTurns(msgs) == {i \in 1..Len(msgs) : msgs[i].type = "user"}

\* a sequence without its i-th element
RemoveAt(seq, i) == SubSeq(seq, 1, i - 1) \o SubSeq(seq, i + 1, Len(seq))

(***************************************************************************)
(* Chat.js, the render: the suggestion panel.                              *)
(***************************************************************************)
\* messages.filter(m => m.type === 'user').map(m => m.content)
RECURSIVE askedQuestionsOf(_)
askedQuestionsOf(msgs) ==
    IF msgs = << >> THEN << >>
    ELSE (IF Head(msgs).type = "user" THEN << Head(msgs).content >> ELSE << >>)
         \o askedQuestionsOf(Tail(msgs))

askedQuestions == askedQuestionsOf(messages)

\* a filter that compares with the last question asked only
SuggestionKeptSinceLast(asked, q) == asked = << >> \/ asked[Len(asked)] # q

\* whether the filter of the suggestion panel keeps candidate q
SuggestionKept(asked, q) == ~includes(asked, q)

\* VALID_QUESTIONS.filter(q => !askedQuestions.includes(q))
RECURSIVE filterQuestions(_, _)
filterQuestions(qs, asked) ==
    IF qs = << >> THEN << >>
    ELSE (IF SuggestionKept(asked, Head(qs)) THEN << Head(qs) >> ELSE << >>)
         \o filterQuestions(Tail(qs), asked)

contextSuggestions == filterQuestions(VALID_QUESTIONS, askedQuestions)

\* the entries of the suggestion panel: a placeholder when none is left
suggestionPanel ==
    IF Len(contextSuggestions) = 0 THEN << "No more suggestions" >> ELSE contextSuggestions

(***************************************************************************)
(* Chat.js: the input field, the suggestion panel and the autocomplete.    *)
(***************************************************************************)
\* generateSuggestions(input) up to its await: blank input clears the
\* options, any other input posts a request
GenerateSuggestions(input) ==
    IF trim(input) = ""
    THEN /\ suggestions' = << >>
         /\ suggestionsFor' = input
         /\ pending' = pending
    ELSE /\ Len(pending) < MaxPending
         /\ pending' = Append(pending, input)
         /\ UNCHANGED << suggestions, suggestionsFor >>

\* handleInputChange: typing in the field, or picking an autocomplete option
\* (the field is disabled while loading)
HandleInputChange(text) ==
    /\ mounted = "Chat"
    /\ ~loading
    /\ query' = text
    /\ GenerateSuggestions(text)
    /\ UNCHANGED << mounted, message, messages, loading, visualizationType, calls >>
    /\ UNCHANGED nonChatVars

\* generateSuggestions after its await: the request answered
SuggestionsResponse(i, list) ==
    /\ suggestions' = list
    /\ suggestionsFor' = pending[i]
    /\ pending' = RemoveAt(pending, i)
    /\ UNCHANGED << mounted, query, message, messages, loading, visualizationType, calls >>
    /\ UNCHANGED nonChatVars

\* generateSuggestions after its await: the request failed (catch)
SuggestionsError(i) ==
    /\ suggestions' = << >>
    /\ suggestionsFor' = pending[i]
    /\ pending' = RemoveAt(pending, i)
    /\ UNCHANGED << mounted, query, message, messages, loading, visualizationType, calls >>
    /\ UNCHANGED nonChatVars

\* a click on an entry of the suggestion panel: setQuery(suggestion)
SuggestionClick(i) ==
    /\ mounted = "Chat"
    /\ query' = contextSuggestions[i]
    /\ UNCHANGED << mounted, message, messages, loading, visualizationType,
                    suggestions, suggestionsFor, calls, pending >>
    /\ UNCHANGED nonChatVars

(***************************************************************************)
(* Chat.js: handleQuery.                                                   *)
(***************************************************************************)
\* mutant: the send button is disabled on blank input only
SendDisabledIgnoresLoading == trim(query) = ""

\* the disabled prop of the send button (in the first version of Chat.js
\* the Enter key of the field, disabled while loading, calls handleQuery too)
SendDisabled == loading \/ trim(query) = ""

\* handleQuery up to its await: the guard, setLoading(true), the user
\* message; then the 800 ms timer of a demo branch or the POST /api/query
\* (limit bounds the questions of the session considered)
HandleQueryUpTo(limit) ==
    /\ mounted = "Chat"
    /\ ~SendDisabled
    /\ trim(query) # ""
    /\ Cardinality(UserTurns(messages)) < limit
    /\ loading' = TRUE
    /\ messages' = Append(messages, TextMessage("user", query))
    /\ calls' = Append(calls, [query |-> query, branch |-> demoBranch(query)])
    /\ UNCHANGED << mounted, query, message, visualizationType, suggestions,
                    suggestionsFor, pending >>
    /\ UNCHANGED nonChatVars

HandleQuery == HandleQueryUpTo(MaxQueries)

\* an answer appended with its results before its sql
AnswerMessagesResultsFirst(sql, results, analysis) ==
    << ResultsMessage(results), TextMessage("sql", sql), TextMessage("analysis", analysis) >>

\* what a handler appends for an answer { sql, results, analysis }
AnswerMessages(sql, results, analysis) ==
    << TextMessage("sql", sql), ResultsMessage(results), TextMessage("analysis", analysis) >>

\* what the catch block appends: error.response?.data?.error || 'An error occurred'
ErrorMessage(err) ==
    TextMessage("error",
                IF err.response /\ err.error # "" THEN err.error ELSE "An error occurred")

\* a demo branch that returns without setLoading(false)
DemoAnswerKeepsLoading(i) ==
    /\ mounted = "Chat"
    /\ calls[i].branch > 0
    /\ messages' = messages \o
           AnswerMessages("-- Simulated SQL for: " \o DemoQueries[calls[i].branch],
                          dummyResults(calls[i].branch), demoAnalysis(calls[i].branch))
    /\ visualizationType' = demoVisualization(calls[i].branch)
    /\ query' = ""
    /\ calls' = RemoveAt(calls, i)
    /\ UNCHANGED << mounted, message, loading, suggestions, suggestionsFor, pending >>
    /\ UNCHANGED nonChatVars

\* handleQuery, a demo branch after its timer: the simulated answer
DemoAnswer(i) ==
    /\ mounted = "Chat"
    /\ calls[i].branch > 0
    /\ messages' = messages \o
           AnswerMessages("-- Simulated SQL for: " \o DemoQueries[calls[i].branch],
                          dummyResults(calls[i].branch), demoAnalysis(calls[i].branch))
    /\ visualizationType' = demoVisualization(calls[i].branch)
    /\ loading' = FALSE
    /\ query' = ""
    /\ calls' = RemoveAt(calls, i)
    /\ UNCHANGED << mounted, message, suggestions, suggestionsFor, pending >>
    /\ UNCHANGED nonChatVars

\* Object.entries(firstRow).filter(([_, value]) => typeof value === 'number')
numericColumns(row) == {j \in 1..Len(row) : typeof(row[j].v) = "number"}

\* handleQuery after its await, the request answered: the three messages,
\* the visualization auto-detection, setLoading(false), setQuery('')
QueryResponse(i, response) ==
    /\ mounted = "Chat"
    /\ calls[i].branch = 0
    /\ messages' = messages \o AnswerMessages(response.sql, response.results, response.analysis)
    /\ visualizationType' =
           IF Len(response.results) > 0 /\ Cardinality(numericColumns(response.results[1])) >= 2
           THEN "bar" ELSE visualizationType
    /\ loading' = FALSE
    /\ query' = ""
    /\ calls' = RemoveAt(calls, i)
    /\ UNCHANGED << mounted, message, suggestions, suggestionsFor, pending >>
    /\ UNCHANGED nonChatVars

\* mutant: the failure path leaves loading set
QueryErrorKeepsLoading(i, err) ==
    /\ mounted = "Chat"
    /\ calls[i].branch = 0
    /\ messages' = Append(messages, TextMessage("error", "An error occurred"))
    /\ query' = ""
    /\ calls' = RemoveAt(calls, i)
    /\ UNCHANGED << mounted, message, loading, visualizationType, suggestions,
                    suggestionsFor, pending >>
    /\ UNCHANGED nonChatVars

\* handleQuery after its await, the request failed: the error message,
\* setLoading(false), setQuery('')
QueryError(i, err) ==
    /\ mounted = "Chat"
    /\ calls[i].branch = 0
    /\ messages' = Append(messages, ErrorMessage(err))
    /\ loading' = FALSE
    /\ query' = ""
    /\ calls' = RemoveAt(calls, i)
    /\ UNCHANGED << mounted, message, visualizationType, suggestions, suggestionsFor,
                    pending >>
    /\ UNCHANGED nonChatVars

(***************************************************************************)
(* MessageInput.js and ChatWindow.js.                                      *)
(***************************************************************************)
\* MessageInput: onChange of the field (disabled while loading)
MessageChange(text) ==
    /\ mounted = "ChatWindow"
    /\ ~loading
    /\ message' = text
    /\ UNCHANGED << mounted, query, messages, loading, visualizationType, suggestions,
                    suggestionsFor, calls, pending >>
    /\ UNCHANGED nonChatVars

\* a guard that tests loading only
SubmitAcceptedBlank == ~loading

\* the guard of MessageInput.handleSubmit
SubmitAccepted == trim(message) # "" /\ ~loading

\* MessageInput.handleSubmit with ChatWindow.handleSend up to its await:
\* onSend(message) sets loading, appends the user message and posts /query;
\* then setMessage('')
HandleSubmit ==
    /\ mounted = "ChatWindow"
    /\ SubmitAccepted
    /\ Cardinality(UserTurns(messages)) < MaxQueries
    /\ loading' = TRUE
    /\ messages' = Append(messages, TextMessage("user", message))
    /\ calls' = Append(calls, [query |-> message, branch |-> 0])
    /\ message' = ""
    /\ UNCHANGED << mounted, query, visualizationType, suggestions, suggestionsFor,
                    pending >>
    /\ UNCHANGED nonChatVars

\* handleSend after its await, the request answered; finally setLoading(false)
SendResponse(i, response) ==
    /\ mounted = "ChatWindow"
    /\ messages' = messages \o AnswerMessages(response.sql, response.results, response.analysis)
    /\ loading' = FALSE
    /\ calls' = RemoveAt(calls, i)
    /\ UNCHANGED << mounted, query, message, visualizationType, suggestions,
                    suggestionsFor, pending >>
    /\ UNCHANGED nonChatVars

\* a catch block that records nothing for the failed turn
SendErrorSilent(i, err) ==
    /\ mounted = "ChatWindow"
    /\ loading' = FALSE
    /\ calls' = RemoveAt(calls, i)
    /\ UNCHANGED << mounted, query, message, messages, visualizationType, suggestions,
                    suggestionsFor, pending >>
    /\ UNCHANGED nonChatVars

\* handleSend after its await, the request failed; finally setLoading(false)
SendError(i, err) ==
    /\ mounted = "ChatWindow"
    /\ messages' = Append(messages, ErrorMessage(err))
    /\ loading' = FALSE
    /\ calls' = RemoveAt(calls, i)
    /\ UNCHANGED << mounted, query, message, visualizationType, suggestions,
                    suggestionsFor, pending >>
    /\ UNCHANGED nonChatVars

(***************************************************************************)
(* ResultsTable.js.  JavaScript numbers are modelled as exact rationals    *)
(* (num / den, den > 0, in lowest terms): sums and quotients of the small  *)
(* integers of the model are computed without rounding.  Math.sqrt is not  *)
(* evaluated: std is kept as the square root of its radicand.              *)
(***************************************************************************)
\* rows of a result set handed to ResultsTable
MaxRows == 3

Abs(x) == IF x < 0 THEN -x ELSE x

RECURSIVE GCD(_, _)
GCD(a, b) == IF b = 0 THEN a ELSE GCD(b, a % b)

\* the number n / d in lowest terms; a division by zero gives what it gives
\* in JavaScript: Infinity (1/0), -Infinity (-1/0) or NaN (0/0)
Rat(n, d) ==
    LET g == GCD(Abs(n), Abs(d))
        sign == IF d < 0 THEN -1 ELSE 1
    IN  IF g = 0 THEN [num |-> 0, den |-> 0]
        ELSE [num |-> sign * (n \div g), den |-> sign * (d \div g)]

RatAdd(x, y) == Rat(x.num * y.den + y.num * x.den, x.den * y.den)
RatSub(x, y) == Rat(x.num * y.den - y.num * x.den, x.den * y.den)
RatMul(x, y) == Rat(x.num * y.num, x.den * y.den)
\* x / y for y # 0
RatDiv(x, y) == Rat(x.num * y.den, x.den * y.num)
RatLess(x, y) == x.num * y.den < y.num * x.den

\* row[column]: the value of the property, undefined (not a number) when
\* the row has no such property
RowValue(row, column) ==
    LET hits == {j \in 1..Len(row) : row[j].k = column}
    IN  IF hits = {} THEN [t |-> "undefined", n |-> 0, s |-> ""]
        ELSE row[CHOOSE j \in hits : \A h \in hits : j >= h].v

\* data.map(row => row[column]).filter(v => typeof v === 'number')
RECURSIVE numericValuesOf(_, _)
numericValuesOf(rows, column) ==
    IF rows = << >> THEN << >>
    ELSE (IF typeof(RowValue(Head(rows), column)) = "number"
          THEN << Rat(RowValue(Head(rows), column).n, 1) >> ELSE << >>)
         \o numericValuesOf(Tail(rows), column)

\* numericValues.reduce((a, b) => a + b, 0)
RECURSIVE reduceSum(_)
reduceSum(values) ==
    IF values = << >> THEN Rat(0, 1)
    ELSE RatAdd(reduceSum(SubSeq(values, 1, Len(values) - 1)), values[Len(values)])

\* numericValues.reduce((a, b) => a + Math.pow(b - mean, 2), 0), mean being
\* recomputed from all values at every step
RECURSIVE reduceSquares(_, _)
reduceSquares(values, all) ==
    IF values = << >> THEN Rat(0, 1)
    ELSE LET b == values[Len(values)]
             mean == RatDiv(reduceSum(all), Rat(Len(all), 1))
             dev == RatSub(b, mean)
         IN  RatAdd(reduceSquares(SubSeq(values, 1, Len(values) - 1), all), RatMul(dev, dev))

\* Math.min(...values) and Math.max(...values) of a non-empty array
MathMin(values) ==
    values[CHOOSE i \in 1..Len(values) : \A j \in 1..Len(values) : ~RatLess(values[j], values[i])]
MathMax(values) ==
    values[CHOOSE i \in 1..Len(values) : \A j \in 1..Len(values) : ~RatLess(values[i], values[j])]

NoStats == [none |-> TRUE]

\* mutant: the sample formula, the squared deviations divided by count - 1
calculateStatsSample(rows, column) ==
    LET numericValues == numericValuesOf(rows, column)
        n == Len(numericValues)
    IN  IF n = 0 THEN NoStats
        ELSE [ none |-> FALSE,
               count |-> n,
               mean |-> RatDiv(reduceSum(numericValues), Rat(n, 1)),
               min |-> MathMin(numericValues),
               max |-> MathMax(numericValues),
               std |-> [sqrtOf |-> IF n = 1 THEN Rat(0, 1)
                                   ELSE RatDiv(reduceSquares(numericValues, numericValues),
                                               Rat(n - 1, 1))] ]

\* calculateStats without its early return for a column that holds no number
calculateStatsUnguarded(rows, column) ==
    LET numericValues == numericValuesOf(rows, column)
        n == Len(numericValues)
    IN  [ none |-> FALSE,
          count |-> n,
          mean |-> RatDiv(reduceSum(numericValues), Rat(n, 1)),
          min |-> IF n = 0 THEN Rat(1, 0) ELSE MathMin(numericValues),
          max |-> IF n = 0 THEN Rat(-1, 0) ELSE MathMax(numericValues),
          std |-> [sqrtOf |-> RatDiv(reduceSquares(numericValues, numericValues),
                                     Rat(n, 1))] ]

\* calculateStats(column): null (NoStats) without a numeric value
calculateStats(rows, column) ==
    LET numericValues == numericValuesOf(rows, column)
    IN  IF Len(numericValues) = 0 THEN NoStats
        ELSE [ none |-> FALSE,
               count |-> Len(numericValues),
               mean |-> RatDiv(reduceSum(numericValues), Rat(Len(numericValues), 1)),
               min |-> MathMin(numericValues),
               max |-> MathMax(numericValues),
               std |-> [sqrtOf |-> RatDiv(reduceSquares(numericValues, numericValues),
                                          Rat(Len(numericValues), 1))] ]

\* Object.keys(data[0])
RECURSIVE keysOf(_)
keysOf(row) == IF row = << >> THEN << >> ELSE << Head(row).k >> \o keysOf(Tail(row))

columns == keysOf(data[1])

\* the values a cell of a result set takes: numbers, a numeric-looking
\* string and null
SalaryValues == { Num(-2), Num(1), Num(4), Str("7"), Null }
NameValues == { Str("Ann"), Num(2) }
ResultRows == { << Cell("name", a), Cell("salary", b) >> : a \in NameValues, b \in SalaryValues }

RECURSIVE SeqsUpTo(_, _)
SeqsUpTo(S, n) ==
    IF n = 0 THEN { << >> }
    ELSE LET shorter == SeqsUpTo(S, n - 1)
         IN  shorter \cup { Append(q, x) : q \in {r \in shorter : Len(r) = n - 1}, x \in S }

\* what ResultsTable renders for its data: nothing (null) for an empty
\* result set, else the table with its toolbar
ResultsTableView(rows) == IF Len(rows) = 0 THEN "null" ELSE "table"

\* what renderMessage of Chat renders for the content of a results message
resultsView(content) == IF Len(content) > 0 THEN "table" ELSE "No results found."

\* the component is mounted with the result set of a results message
StatsInit ==
    /\ data \in SeqsUpTo(ResultRows, MaxRows)
    /\ statsAnchorEl = FALSE
    /\ shownStats = << >>

StatsIdle ==
    /\ data = << >>
    /\ statsAnchorEl = FALSE
    /\ shownStats = << >>

\* the Statistics button: setStatsAnchorEl(e.currentTarget); the menu then
\* shows calculateStats(column) of every column (nothing is rendered for an
\* empty result set: the component returns null)
OpenStatistics ==
    /\ Len(data) > 0
    /\ ~statsAnchorEl
    /\ statsAnchorEl' = TRUE
    /\ shownStats' = [j \in 1..Len(columns) |-> calculateStats(data, columns[j])]
    /\ UNCHANGED data
    /\ UNCHANGED nonStatsVars

\* onClose of the menu: setStatsAnchorEl(null)
CloseStatistics ==
    /\ statsAnchorEl
    /\ statsAnchorEl' = FALSE
    /\ shownStats' = << >>
    /\ UNCHANGED data
    /\ UNCHANGED nonStatsVars

(***************************************************************************)
(* The query-generation core: SQLValidator.                                *)
(***************************************************************************)
MutatingKeywords ==
    { "INSERT", "UPDATE", "DELETE", "DROP", "ALTER", "TRUNCATE", "CREATE",
      "GRANT", "EXEC" }

\* the characters of an identifier; every other character ends a token
IdentChars ==
    LET all == UpperLetters \o LowerLetters \o "0123456789_"
    IN  { SubSeq(all, i, i) : i \in 1..Len(all) }
IsIdentChar(c) == c \in IdentChars

UpperChar(c) ==
    LET i == IndexOfChar(c, LowerLetters, 1)
    IN  IF i = 0 THEN c ELSE SubSeq(UpperLetters, i, i)

RECURSIVE toUpperCase(_)
toUpperCase(s) ==
    IF s = "" THEN "" ELSE UpperChar(Head(s)) \o toUpperCase(Tail(s))

\* the tokens of a statement, left to right: the maximal runs of identifier
\* characters (cur is the run being read)
RECURSIVE tokensOf(_, _)
tokensOf(s, cur) ==
    LET done == IF cur = "" THEN << >> ELSE << cur >>
    IN  IF s = "" THEN done
        ELSE IF IsIdentChar(Head(s)) THEN tokensOf(Tail(s), cur \o Head(s))
        ELSE done \o tokensOf(Tail(s), "")

\* whether sub occurs in s at some position
Contains(s, sub) ==
    \E i \in 1..(Len(s) - Len(sub) + 1) : SubSeq(s, i, i + Len(sub) - 1) = sub

\* the tables of the SchemaSnapshot
SchemaTables == { "employees" }

\* best-effort identifier extraction: the token after each FROM
referencedTables(tokens) ==
    { tokens[i + 1] : i \in {j \in 1..(Len(tokens) - 1) : toUpperCase(tokens[j]) = "FROM"} }

Valid == [valid |-> TRUE, reason |-> ""]
Rejected(reason) == [valid |-> FALSE, reason |-> reason]

\* a validator that looks for the keywords anywhere in the text
checkSubstring(sql) ==
    LET tokens == tokensOf(sql, "")
    IN  IF \E k \in MutatingKeywords : Contains(toUpperCase(sql), k)
        THEN Rejected("mutating_keyword")
        ELSE IF \E t \in referencedTables(tokens) : toLowerCase(t) \notin SchemaTables
        THEN Rejected("unknown_table")
        ELSE Valid

\* SQLValidator.check: the verdict on a statement
check(sql) ==
    LET tokens == tokensOf(sql, "")
    IN  IF \E i \in 1..Len(tokens) : toUpperCase(tokens[i]) \in MutatingKeywords
        THEN Rejected("mutating_keyword")
        ELSE IF \E t \in referencedTables(tokens) : toLowerCase(t) \notin SchemaTables
        THEN Rejected("unknown_table")
        ELSE Valid

\* only a statement with the verdict valid goes to the execution service
ExecutableAlways(verdict) == TRUE
Executable(verdict) == verdict.valid

(***************************************************************************)
(* The query-generation core: the retry policy of SQLGenerator.            *)
(***************************************************************************)
\* the default N of the retry policy
DefaultRetries == 3

Transient == { "rate_limit", "timeout" }
NonTransient == { "auth", "malformed_request" }
ModelOutcomes == {"ok"} \cup Transient \cup NonTransient

\* whether the model is called again after a failure, retries being the
\* number of retries already made for this prompt
ShouldRetryOnceMore(outcome, retries, limit) == outcome \in Transient /\ retries <= limit
ShouldRetry(outcome, retries, limit) == outcome \in Transient /\ retries < limit

(***************************************************************************)
(* The query-generation core: ContextManager.                              *)
(***************************************************************************)
Turn(role, text, sql, ts) == [role |-> role, text |-> text, sql |-> sql, ts |-> ts]

\* the position of the most recent user turn, 0 when there is none
lastUserIndex(seq) ==
    LET users == {i \in 1..Len(seq) : seq[i].role = "user"}
    IN  IF users = {} THEN 0 ELSE CHOOSE i \in users : \A j \in users : j <= i

\* the turns append may evict
evictableAny(seq) == {i \in 1..Len(seq) : TRUE}
evictable(seq) ==
    {i \in 1..Len(seq) : seq[i].role # "system" /\ i # lastUserIndex(seq)}

oldest(positions) == CHOOSE i \in positions : \A j \in positions : i <= j

\* the Turn sequence after eviction down to max
RECURSIVE evict(_, _)
evict(seq, max) ==
    IF Len(seq) <= max \/ evictable(seq) = {} THEN seq
    ELSE evict(RemoveAt(seq, oldest(evictable(seq))), max)

\* the turns that eviction removes, in the order it removes them
RECURSIVE evictions(_, _)
evictions(seq, max) ==
    IF Len(seq) <= max \/ evictable(seq) = {} THEN << >>
    ELSE << seq[oldest(evictable(seq))] >>
             \o evictions(RemoveAt(seq, oldest(evictable(seq))), max)

\* the schema vocabulary: the table and column names of the SchemaSnapshot
SchemaColumns == << "name", "department", "salary" >>
SchemaVocabulary == SchemaTables \cup {SchemaColumns[i] : i \in 1..Len(SchemaColumns)}

\* the entities a text refers to: its tokens found in the schema vocabulary
extractEntities(text) ==
    LET tokens == tokensOf(toLowerCase(text), "")
    IN  {tokens[i] : i \in 1..Len(tokens)} \cap SchemaVocabulary

\* the texts of the turns of the sessions considered, and the entities of each
QueryTexts == { "Show all employees" }
TurnTexts == { "show all employees", "average salary by department", " " }
AnalysisText == "analysis"
entitiesOf == [text \in QueryTexts \cup TurnTexts \cup {AnalysisText} |-> extractEntities(text)]

entityHits(text) ==
    IF text \in DOMAIN entitiesOf THEN entitiesOf[text] ELSE extractEntities(text)

\* an EntityMemory rebuilt from the turns still in the context
rememberKept(memory, kept, turn) ==
    UNION {entityHits(kept[i].text) : i \in 1..Len(kept)}

\* the EntityMemory after append of turn has left the turns kept in the
\* context: the hits of the new turn are added, nothing is removed
remember(memory, kept, turn) ==
    memory \cup entityHits(turn.text)

\* ContextManager.append of each of the turns new, in order, to the context
\* ctx: the Turn sequence, the turns evicted so far and the EntityMemory
RECURSIVE append(_, _, _)
append(ctx, new, max) ==
    IF new = << >> THEN ctx
    ELSE LET all == Append(ctx.turns, Head(new))
         IN  append([turns |-> evict(all, max),
                     evicted |-> ctx.evicted \o evictions(all, max),
                     entities |-> remember(ctx.entities, evict(all, max), Head(new))],
                    Tail(new), max)

\* the context after processQuery has appended the turns new
RecordTurns(new) ==
    LET ctx == append([turns |-> turns, evicted |-> evicted, entities |-> entities],
                      new, maxTurns)
    IN  /\ turns' = ctx.turns
        /\ evicted' = ctx.evicted
        /\ entities' = ctx.entities
        /\ clock' = clock + Len(new)

(***************************************************************************)
(* The query-generation core: PromptBuilder.                               *)
(***************************************************************************)
\* the K of the condensed history: the last K turns
HistoryTurns == 2

RECURSIVE joinWith(_, _)
joinWith(strings, sep) ==
    IF strings = << >> THEN ""
    ELSE IF Len(strings) = 1 THEN strings[1]
    ELSE strings[1] \o sep \o joinWith(Tail(strings), sep)

\* the schema description: the table with its columns
describeSchema == "employees(" \o joinWith(SchemaColumns, ", ") \o ")"

\* the last k turns of a context
lastTurns(ctx, k) == SubSeq(ctx, IF Len(ctx) > k THEN Len(ctx) - k + 1 ELSE 1, Len(ctx))

\* a prompt whose history carries the timestamp of each turn
buildStamped(ctx, text, now) ==
    LET recent == lastTurns(ctx, HistoryTurns)
    IN  "Schema: " \o describeSchema
            \o "\nHistory: "
            \o joinWith([i \in 1..Len(recent) |->
                             ToString(recent[i].ts) \o " " \o recent[i].role
                                 \o ": " \o recent[i].text], "; ")
            \o "\nQuestion: " \o text

\* PromptBuilder.build at time now: the schema description, the condensed
\* history and the current query
build(ctx, text, now) ==
    LET recent == lastTurns(ctx, HistoryTurns)
    IN  "Schema: " \o describeSchema
            \o "\nHistory: "
            \o joinWith([i \in 1..Len(recent) |->
                             recent[i].role \o ": " \o recent[i].text], "; ")
            \o "\nQuestion: " \o text

(***************************************************************************)
(* The query-generation core: processQuery.                                *)
(***************************************************************************)
\* the questions asked of the core in one session
MaxCoreQueries == 2
\* the largest configured maximum turn count
MaxTurnLimit == 3
\* the calls of ContextManager.append on one context
MaxAppends == 5


\* what the language model's answer is extracted to ("" when it holds no
\* statement)
CandidateSQL ==
    { "SELECT * FROM employees",
      "select created_at, updated_by from employees",
      "select name from employees where executive = 1",
      "Drop table employees",
      "SELECT 1;delete from employees",
      "SELECT * FROM payroll",
      "" }

NoResult == [tag |-> "none", retries |-> 0, reason |-> "", sql |-> ""]
Failure(tag, retries, reason) ==
    [tag |-> tag, retries |-> retries, reason |-> reason, sql |-> ""]
Success(sql) == [tag |-> "ok", retries |-> 0, reason |-> "", sql |-> sql]

GeneratedQuery(sql, verdict) == [sql |-> sql, verdict |-> verdict]
NoCandidate == GeneratedQuery("", Rejected("none"))

CheckEvent(sql, verdict) == [op |-> "check", sql |-> sql, verdict |-> verdict]
ExecuteEvent(sql) == [op |-> "execute", sql |-> sql, verdict |-> Valid]

\* the user turns the context has been given
\* SQLValidator.check of each statement the model can answer with
verdictOf == [sql \in CandidateSQL |-> check(sql)]

QuestionsAsked ==
    Cardinality({i \in 1..Len(turns) : turns[i].role = "user"})
        + Cardinality({i \in 1..Len(evicted) : evicted[i].role = "user"})

CoreIdle ==
    /\ pc = "idle"
    /\ queryText = ""
    /\ retryLimit = DefaultRetries
    /\ modelLog = << >>
    /\ candidate = NoCandidate
    /\ lastSql = ""
    /\ result = NoResult
    /\ trace = << >>
    /\ turns = << >>
    /\ maxTurns = MaxTurnLimit
    /\ clock = 0
    /\ evicted = << >>
    /\ entities = {}
    /\ prompt = ""

\* a session with any retry policy and any configured maximum
CoreInit ==
    /\ pc = "idle"
    /\ queryText = ""
    /\ retryLimit \in 0..DefaultRetries
    /\ modelLog = << >>
    /\ candidate = NoCandidate
    /\ lastSql = ""
    /\ result = NoResult
    /\ trace = << >>
    /\ turns = << >>
    /\ maxTurns \in 1..MaxTurnLimit
    /\ clock = 0
    /\ evicted = << >>
    /\ entities = {}
    /\ prompt = ""

\* processQuery(session, text) starts: one call at a time per session; the
\* prompt goes to the language model
ProcessQuery(text) ==
    /\ pc = "idle"
    /\ QuestionsAsked < MaxCoreQueries
    /\ pc' = "generate"
    /\ queryText' = text
    /\ modelLog' = << >>
    /\ candidate' = NoCandidate
    /\ result' = NoResult
    /\ prompt' = build(turns, text, clock)
    /\ UNCHANGED << retryLimit, lastSql, trace, turns, maxTurns, clock, evicted, entities >>
    /\ UNCHANGED nonCoreVars

\* a failed turn: the error is returned and the question alone is recorded
FailedTurn(error) ==
    /\ pc' = "idle"
    /\ result' = error
    /\ RecordTurns(<< Turn("user", queryText, "", clock + 1) >>)

\* the model call returns (a timeout of the call is the outcome "timeout"):
\* a failure is retried or surfaced; an answer is extracted, validated and,
\* when valid, handed to the execution service
ModelReplies(outcome, sql) ==
    /\ pc = "generate"
    /\ outcome = "ok" \/ sql = ""
    /\ modelLog' = Append(modelLog, outcome)
    /\ LET retries == Len(modelLog)
           verdict == verdictOf[sql]
       IN  IF outcome = "ok" /\ sql # ""
           THEN IF Executable(verdict)
                THEN /\ candidate' = GeneratedQuery(sql, verdict)
                     /\ trace' = trace \o << CheckEvent(sql, verdict), ExecuteEvent(sql) >>
                     /\ pc' = "execute"
                     /\ UNCHANGED << result, turns, clock, evicted, entities >>
                ELSE /\ candidate' = NoCandidate
                     /\ trace' = Append(trace, CheckEvent(sql, verdict))
                     /\ FailedTurn(Failure("ValidationError", 0, verdict.reason))
           ELSE IF outcome = "ok"
           THEN /\ FailedTurn(Failure("GenerationError", retries, "extraction"))
                /\ UNCHANGED << candidate, trace >>
           ELSE IF ShouldRetry(outcome, retries, retryLimit)
           THEN UNCHANGED << pc, candidate, result, trace, turns, clock, evicted, entities >>
           ELSE /\ FailedTurn(Failure("GenerationError", retries, outcome))
                /\ UNCHANGED << candidate, trace >>
    /\ UNCHANGED << queryText, retryLimit, lastSql, maxTurns, prompt >>
    /\ UNCHANGED nonCoreVars

\* the execution service returns: rows are analysed and the turn is
\* recorded with its SQL, which becomes the last SQL; an ExecutionError is a
\* failed turn
ExecutionReturns(ok) ==
    /\ pc = "execute"
    /\ IF ok
       THEN /\ pc' = "idle"
            /\ lastSql' = candidate.sql
            /\ result' = Success(candidate.sql)
            /\ RecordTurns(<< Turn("user", queryText, "", clock + 1),
                              Turn("system", AnalysisText, candidate.sql, clock + 2) >>)
       ELSE /\ FailedTurn(Failure("ExecutionError", 0, "execution failed"))
            /\ UNCHANGED lastSql
    /\ UNCHANGED << queryText, retryLimit, modelLog, candidate, trace, maxTurns, prompt >>
    /\ UNCHANGED nonCoreVars

\* ContextManager.append(turn) called on its own: a Turn of either role;
\* empty text is a ContextError and changes nothing
AppendTurn(role, text) ==
    /\ pc = "idle"
    /\ clock < MaxAppends
    /\ IF trim(text) = ""
       THEN /\ result' = Failure("ContextError", 0, "empty text")
            /\ UNCHANGED << turns, clock, evicted, entities >>
       ELSE /\ result' = NoResult
            /\ RecordTurns(<< Turn(role, text, "", clock + 1) >>)
    /\ UNCHANGED << pc, queryText, retryLimit, modelLog, candidate, lastSql, trace, maxTurns,
                    prompt >>
    /\ UNCHANGED nonCoreVars

\* the state of a session that reset clears
Session ==
    [ turns |-> turns, evicted |-> evicted, entities |-> entities, clock |-> clock,
      lastSql |-> lastSql, queryText |-> queryText, modelLog |-> modelLog,
      candidate |-> candidate, prompt |-> prompt ]

EmptySession ==
    [ turns |-> << >>, evicted |-> << >>, entities |-> {}, clock |-> 0,
      lastSql |-> "", queryText |-> "", modelLog |-> << >>,
      candidate |-> NoCandidate, prompt |-> "" ]

\* a reset that clears the turns and keeps the rest
resetTurns(session) == [session EXCEPT !.turns = << >>, !.evicted = << >>, !.clock = 0]

\* ContextManager.reset: the session's state cleared, whatever it was
reset(session) == EmptySession

\* resetSession(sessionId): returns nothing; the retry policy and the
\* configured maximum are configuration and stay
ResetSession ==
    /\ pc = "idle"
    /\ LET cleared == reset(Session)
       IN  /\ turns' = cleared.turns
           /\ evicted' = cleared.evicted
           /\ entities' = cleared.entities
           /\ clock' = cleared.clock
           /\ lastSql' = cleared.lastSql
           /\ queryText' = cleared.queryText
           /\ modelLog' = cleared.modelLog
           /\ candidate' = cleared.candidate
           /\ prompt' = cleared.prompt
    /\ result' = [NoResult EXCEPT !.tag = "void"]
    /\ UNCHANGED << pc, retryLimit, trace, maxTurns >>
    /\ UNCHANGED nonCoreVars

(***************************************************************************)
(* The chat session.  In Spec the user acts once the autocomplete request  *)
(* of the last input has been answered (Settled); AutoSpec is the input    *)
(* field alone, with up to MaxPending requests in flight and answered in   *)
(* any order.                                                              *)
(***************************************************************************)
(***************************************************************************)
(* ConnectPage.js.                                                         *)
(***************************************************************************)
Fields == {"server", "database", "username", "password"}

\* what the user types into the fields
ServerTexts == {"", " ", "srv"}
DatabaseTexts == {"", " ", "hr"}
UsernameTexts == {"", " ", "sa"}
PasswordTexts == {"", " ", "pw"}

FieldTexts(name) ==
    CASE name = "server" -> ServerTexts
      [] name = "database" -> DatabaseTexts
      [] name = "username" -> UsernameTexts
      [] name = "password" -> PasswordTexts

\* how an attempt fails: a response that is not ok, with the detail of its
\* body, or a fetch that rejects, with the message of its error
ConnectFailures ==
    { [ok |-> FALSE, rejected |-> FALSE, detail |-> ""],
      [ok |-> FALSE, rejected |-> FALSE, detail |-> "Login failed"],
      [ok |-> FALSE, rejected |-> TRUE, detail |-> "Failed to fetch"] }

NoErrors == [name \in Fields |-> ""]

ConnectInit ==
    /\ form = [server |-> "", database |-> "", username |-> "", password |-> ""]
    /\ errors = NoErrors
    /\ connectLoading = FALSE
    /\ success = FALSE
    /\ errorMsg = ""
    /\ sessionStorage = [db_connected |-> "null", db_name |-> "null"]
    /\ connects = << >>

\* a validation that tests the fields as typed, white space included
validateUntrimmed(f) ==
    [name \in Fields |->
        CASE name = "server" -> IF f.server = "" THEN "Server name is required." ELSE ""
          [] name = "database" -> IF f.database = "" THEN "Database name is required." ELSE ""
          [] name = "username" -> IF f.username = "" THEN "Username is required." ELSE ""
          [] name = "password" -> IF f.password = "" THEN "Password is required." ELSE ""]

\* validate: newErrors for the form f
validate(f) ==
    [name \in Fields |->
        CASE name = "server" ->
                 IF trim(f.server) = "" THEN "Server name is required." ELSE ""
          [] name = "database" ->
                 IF trim(f.database) = "" THEN "Database name is required." ELSE ""
          [] name = "username" ->
                 IF trim(f.username) = "" THEN "Username is required." ELSE ""
          [] name = "password" ->
                 IF f.password = "" THEN "Password is required." ELSE ""]

\* Object.keys(newErrors).length === 0
validated(f) == validate(f) = NoErrors

\* handleChange: the field takes the typed value and loses its error
ConnectHandleChange(name, value) ==
    /\ value # form[name]
    /\ form' = [form EXCEPT ![name] = value]
    /\ errors' = [errors EXCEPT ![name] = ""]
    /\ UNCHANGED << connectLoading, success, errorMsg, sessionStorage, connects >>
    /\ UNCHANGED nonConnectVars

\* a submit that starts its attempt without setErrorMsg('') and
\* setSuccess(false)
ConnectHandleSubmitKeepsFlags ==
    /\ ~connectLoading
    /\ errors' = validate(form)
    /\ IF validated(form)
       THEN /\ connectLoading' = TRUE
            /\ connects' = Append(connects, form)
            /\ UNCHANGED << success, errorMsg >>
       ELSE UNCHANGED << connectLoading, success, errorMsg, connects >>
    /\ UNCHANGED << form, sessionStorage >>
    /\ UNCHANGED nonConnectVars

\* handleSubmit up to its await (the submit button is disabled while
\* loading): validate sets the errors; a form that validates is posted
ConnectHandleSubmit ==
    /\ ~connectLoading
    /\ errors' = validate(form)
    /\ IF validated(form)
       THEN /\ connectLoading' = TRUE
            /\ errorMsg' = ""
            /\ success' = FALSE
            /\ connects' = Append(connects, form)
       ELSE UNCHANGED << connectLoading, success, errorMsg, connects >>
    /\ UNCHANGED << form, sessionStorage >>
    /\ UNCHANGED nonConnectVars

\* handleSubmit after its await, response.ok: the two items of the session
\* storage (form is the form the handler was called with), setSuccess(true);
\* finally setLoading(false)
ConnectResponse(i) ==
    /\ sessionStorage' = [db_connected |-> "true", db_name |-> connects[i].database]
    /\ success' = TRUE
    /\ connectLoading' = FALSE
    /\ connects' = RemoveAt(connects, i)
    /\ UNCHANGED << form, errors, errorMsg >>
    /\ UNCHANGED nonConnectVars

\* handleSubmit after its await, the attempt failed: catch sets errorMsg to
\* err.message (data.detail || 'Connection failed' for a response that is
\* not ok); finally setLoading(false)
ConnectError(i, failure) ==
    /\ errorMsg' = IF ~failure.rejected /\ failure.detail = "" THEN "Connection failed"
                   ELSE failure.detail
    /\ connectLoading' = FALSE
    /\ connects' = RemoveAt(connects, i)
    /\ UNCHANGED << form, errors, success, sessionStorage >>
    /\ UNCHANGED nonConnectVars

\* onClose of the error snackbar and of its alert
CloseErrorSnackbar ==
    /\ errorMsg # ""
    /\ errorMsg' = ""
    /\ UNCHANGED << form, errors, connectLoading, success, sessionStorage, connects >>
    /\ UNCHANGED nonConnectVars

\* onClose of the success snackbar
CloseSuccessSnackbar ==
    /\ success
    /\ success' = FALSE
    /\ UNCHANGED << form, errors, connectLoading, errorMsg, sessionStorage, connects >>
    /\ UNCHANGED nonConnectVars

(***************************************************************************)
(* Connect, the database explorer: the connect form, and the schema with   *)
(* the sample of the selected table once connected.                        *)
(***************************************************************************)
\* the sample requests in flight considered at a time
MaxSamples == 2

\* response.data.schema of POST /connect: no schema, or the tables in the
\* order of Object.entries
NullSchema == [null |-> TRUE, tables |-> << >>]
ConnectSchemas ==
    { NullSchema, [null |-> FALSE, tables |-> << "employees", "departments" >>] }

\* response.data.sample of GET /sample/<table>: the rows of the table
NullSample == [null |-> TRUE, table |-> "null", rows |-> << >>]
sampleOf(table) ==
    [null |-> FALSE, table |-> table,
     rows |-> IF table = "employees" THEN << << "Ann", "Sales" >> >> ELSE << << "Sales" >> >>]

\* JSON.stringify of the form object, its keys in insertion order
stringify(f) ==
    "{\"server\":\"" \o f.server \o "\",\"database\":\"" \o f.database
        \o "\",\"username\":\"" \o f.username \o "\",\"password\":\"" \o f.password \o "\"}"

ExplorerInit ==
    /\ formData = [server |-> "", database |-> "", username |-> "", password |-> ""]
    /\ explorerLoading = FALSE
    /\ explorerError = "null"
    /\ schema = NullSchema
    /\ selectedTable = "null"
    /\ sampleData = NullSample
    /\ dbConnection = "null"
    /\ connectCalls = << >>
    /\ sampleCalls = << >>

\* handleInputChange (the form is rendered while there is no schema)
ExplorerInputChange(name, value) ==
    /\ schema.null
    /\ value # formData[name]
    /\ formData' = [formData EXCEPT ![name] = value]
    /\ UNCHANGED << explorerLoading, explorerError, schema, selectedTable, sampleData,
                    dbConnection, connectCalls, sampleCalls >>
    /\ UNCHANGED nonExplorerVars

\* the four fields are required: the browser submits the form only when
\* none is empty
RequiredFilled(f) == \A name \in Fields : f[name] # ""

\* handleConnect up to its await (the submit button is disabled while
\* loading): no validation of its own, the formData is posted as it is
HandleConnect ==
    /\ schema.null
    /\ ~explorerLoading
    /\ RequiredFilled(formData)
    /\ explorerLoading' = TRUE
    /\ explorerError' = "null"
    /\ connectCalls' = Append(connectCalls, formData)
    /\ UNCHANGED << formData, schema, selectedTable, sampleData, dbConnection, sampleCalls >>
    /\ UNCHANGED nonExplorerVars

\* handleConnect after its await, the request answered: setSchema, then
\* sessionStorage.setItem('dbConnection', JSON.stringify(formData)) with the
\* formData the handler was called with; finally setLoading(false)
ConnectAnswered(i, answer) ==
    /\ schema' = answer
    /\ dbConnection' = stringify(connectCalls[i])
    /\ explorerLoading' = FALSE
    /\ connectCalls' = RemoveAt(connectCalls, i)
    /\ UNCHANGED << formData, explorerError, selectedTable, sampleData, sampleCalls >>
    /\ UNCHANGED nonExplorerVars

\* handleConnect after its await, the request failed: setError; finally
\* setLoading(false)
ConnectFailed(i, err) ==
    /\ explorerError' = IF err.response /\ err.error # "" THEN err.error
                        ELSE "Failed to connect to database"
    /\ explorerLoading' = FALSE
    /\ connectCalls' = RemoveAt(connectCalls, i)
    /\ UNCHANGED << formData, schema, selectedTable, sampleData, dbConnection, sampleCalls >>
    /\ UNCHANGED nonExplorerVars

\* handleTableSelect up to its await: a click on the card of a table (the
\* cards stay clickable while loading)
HandleTableSelect(tableName) ==
    /\ ~schema.null
    /\ Len(sampleCalls) < MaxSamples
    /\ selectedTable' = tableName
    /\ explorerLoading' = TRUE
    /\ sampleCalls' = Append(sampleCalls, tableName)
    /\ UNCHANGED << formData, explorerError, schema, sampleData, dbConnection, connectCalls >>
    /\ UNCHANGED nonExplorerVars

\* handleTableSelect after its await, the request answered:
\* setSampleData(response.data.sample); finally setLoading(false)
SampleAnswered(i) ==
    /\ sampleData' = sampleOf(sampleCalls[i])
    /\ explorerLoading' = FALSE
    /\ sampleCalls' = RemoveAt(sampleCalls, i)
    /\ UNCHANGED << formData, explorerError, schema, selectedTable, dbConnection,
                    connectCalls >>
    /\ UNCHANGED nonExplorerVars

\* handleTableSelect after its await, the request failed: setError; finally
\* setLoading(false)
SampleFailed(i, err) ==
    /\ explorerError' = IF err.response /\ err.error # "" THEN err.error
                        ELSE "Failed to fetch sample data"
    /\ explorerLoading' = FALSE
    /\ sampleCalls' = RemoveAt(sampleCalls, i)
    /\ UNCHANGED << formData, schema, selectedTable, sampleData, dbConnection,
                    connectCalls >>
    /\ UNCHANGED nonExplorerVars

vars == << chatVars, statsVars, coreVars, connectVars, explorerVars >>

Init == ChatInit /\ StatsIdle /\ CoreIdle /\ ConnectInit /\ ExplorerInit

ChatIdle ==
    /\ mounted = "ChatWindow"
    /\ query = ""
    /\ message = ""
    /\ messages = << >>
    /\ loading = FALSE
    /\ visualizationType = "null"
    /\ suggestions = << >>
    /\ suggestionsFor = ""
    /\ calls = << >>
    /\ pending = << >>

Settled == pending = << >>

AutoNext ==
    \/ \E text \in TypedTexts \cup {"What is the average salary?"} : HandleInputChange(text)
    \/ \E i \in 1..Len(suggestions) : HandleInputChange(suggestions[i])
    \/ \E i \in 1..Len(pending), list \in SuggestionLists : SuggestionsResponse(i, list)
    \/ \E i \in 1..Len(pending) : SuggestionsError(i)

Next ==
    \/ \E text \in TypedTexts : Settled /\ HandleInputChange(text)
    \/ \E i \in 1..Len(suggestions) : Settled /\ HandleInputChange(suggestions[i])
    \/ \E i \in 1..Len(pending), list \in SuggestionLists : SuggestionsResponse(i, list)
    \/ \E i \in 1..Len(pending) : SuggestionsError(i)
    \/ \E i \in 1..Len(contextSuggestions) : Settled /\ SuggestionClick(i)
    \/ Settled /\ HandleQuery
    \/ \E i \in 1..Len(calls) : DemoAnswer(i)
    \/ \E i \in 1..Len(calls), response \in BackendAnswers : QueryResponse(i, response)
    \/ \E i \in 1..Len(calls), err \in BackendErrors : QueryError(i, err)
    \/ \E text \in TypedTexts : MessageChange(text)
    \/ HandleSubmit
    \/ \E i \in 1..Len(calls), response \in BackendAnswers : SendResponse(i, response)
    \/ \E i \in 1..Len(calls), err \in BackendErrors : SendError(i, err)

Spec == Init /\ [][Next]_vars

AutoSpec == Init /\ [][AutoNext]_vars

\* the 800 ms timer of a demo branch fires; nothing makes the back end answer
FairSpec == Spec /\ WF_vars(\E i \in 1..Len(calls) : DemoAnswer(i))

\* the user who takes questions from the suggestion panel, one at a time,
\* and types once the panel is empty; the back end is down
MaxAsked == 7

SuggestNext ==
    \/ \E i \in 1..Len(contextSuggestions) : ~loading /\ SuggestionClick(i)
    \/ \E text \in TypedTexts :
           contextSuggestions = << >> /\ Settled /\ HandleInputChange(text)
    \/ \E i \in 1..Len(pending) : SuggestionsError(i)
    \/ Settled /\ HandleQueryUpTo(MaxAsked)
    \/ \E i \in 1..Len(calls) : DemoAnswer(i)
    \/ \E i \in 1..Len(calls), err \in {e \in BackendErrors : ~e.response} : QueryError(i, err)

SuggestSpecInit == Init /\ mounted = "Chat"

SuggestSpec == SuggestSpecInit /\ [][SuggestNext]_vars

\* a ResultsTable over any result set of at most MaxRows rows
StatsNext ==
    \/ OpenStatistics
    \/ CloseStatistics

StatsSpecInit == ChatIdle /\ StatsInit /\ CoreIdle /\ ConnectInit /\ ExplorerInit

StatsSpec == StatsSpecInit /\ [][StatsNext]_vars

\* the core answering the questions of one session
CoreNext ==
    \/ \E text \in QueryTexts : ProcessQuery(text)
    \/ \E outcome \in ModelOutcomes, sql \in CandidateSQL : ModelReplies(outcome, sql)
    \/ \E ok \in BOOLEAN : ExecutionReturns(ok)

CoreSpecInit == ChatIdle /\ StatsIdle /\ CoreInit /\ ConnectInit /\ ExplorerInit

CoreSpec == CoreSpecInit /\ [][CoreNext]_vars

\* a ConversationContext given turns of either role in any order
ContextNext ==
    \/ \E role \in {"user", "system"}, text \in TurnTexts : AppendTurn(role, text)
    \/ ResetSession

ContextSpecInit == CoreSpecInit /\ retryLimit = DefaultRetries

ContextSpec == ContextSpecInit /\ [][ContextNext]_vars

\* the connect page: the user types, submits and closes the snackbars; the
\* back end answers or fails each attempt
ConnectNext ==
    \/ \E name \in Fields : \E value \in FieldTexts(name) : ConnectHandleChange(name, value)
    \/ ConnectHandleSubmit
    \/ \E i \in 1..Len(connects) : ConnectResponse(i)
    \/ \E i \in 1..Len(connects), failure \in ConnectFailures : ConnectError(i, failure)
    \/ CloseErrorSnackbar
    \/ CloseSuccessSnackbar

ConnectSpecInit == ChatIdle /\ StatsIdle /\ CoreIdle /\ ConnectInit /\ ExplorerInit

ConnectSpec == ConnectSpecInit /\ [][ConnectNext]_vars

\* the database explorer: the user fills the form, connects and selects
\* tables; the back end answers or fails each request, in any order
ExplorerNext ==
    \/ \E name \in Fields : \E value \in FieldTexts(name) : ExplorerInputChange(name, value)
    \/ HandleConnect
    \/ \E i \in 1..Len(connectCalls), answer \in ConnectSchemas : ConnectAnswered(i, answer)
    \/ \E i \in 1..Len(connectCalls), err \in BackendErrors : ConnectFailed(i, err)
    \/ \E i \in 1..Len(schema.tables) : HandleTableSelect(schema.tables[i])
    \/ \E i \in 1..Len(sampleCalls) : SampleAnswered(i)
    \/ \E i \in 1..Len(sampleCalls), err \in BackendErrors : SampleFailed(i, err)

ExplorerSpecInit == ChatIdle /\ StatsIdle /\ CoreIdle /\ ConnectInit /\ ExplorerInit

ExplorerSpec == ExplorerSpecInit /\ [][ExplorerNext]_vars



(***************************************************************************)
(* Properties of the chat session.                                         *)
(***************************************************************************)
\* runs of white space collapsed to one space
RECURSIVE collapseSpaces(_)
collapseSpaces(s) ==
    IF s = "" THEN ""
    ELSE IF Head(s) \in WhiteSpace
         THEN " " \o collapseSpaces(trimStart(s))
    ELSE Head(s) \o collapseSpaces(Tail(s))

\* case folding and white-space normalization of a question
Normalize(s) == collapseSpaces(trim(toLowerCase(s)))

\* C1: in every state of a Chat session no entry of the suggestion panel
\* matches, after case folding and white-space normalization, the text of a
\* user message of the history.
C1_NoAskedQuestionSuggested ==
    mounted = "Chat" =>
        \A i \in 1..Len(contextSuggestions) : \A j \in UserTurns(messages) :
            Normalize(contextSuggestions[i]) # Normalize(messages[j].content)

\* the last entry of the history
LastMessage == messages[Len(messages)]

\* C2: an error entry directly follows the user entry of its turn (no sql,
\* results or analysis entry in between) and is the last entry of that turn;
\* the question of the failed turn is filtered from the suggestion panel like
\* any asked question; and once the error is recorded the session is ready
\* for the next query (loading is off, nothing is in flight, a non-blank
\* draft can be sent).
C2_FailedTurnRecorded ==
    \A i \in 1..Len(messages) :
        messages[i].type = "error" =>
            /\ i > 1
            /\ messages[i - 1].type = "user"
            /\ i < Len(messages) => messages[i + 1].type = "user"
            /\ mounted = "Chat" => ~includes(contextSuggestions, messages[i - 1].content)
            /\ i = Len(messages) =>
                   /\ ~loading
                   /\ calls = << >>
                   /\ mounted = "Chat" => (SendDisabled <=> trim(query) = "")
                   /\ mounted = "ChatWindow" => (SubmitAccepted <=> trim(message) # "")

\* C2, its case: a candidate question failed, left the panel, and the next
\* query of the session was accepted
C2_Witness ==
    /\ mounted = "Chat"
    /\ \E i \in 2..Len(messages) - 1 :
           /\ messages[i].type = "error"
           /\ messages[i - 1].content = "What is the average salary?"
           /\ messages[i + 1].type = "user"

\* C3: at most one query is in flight; while loading, the one call in flight
\* is the one whose user message ends the history (nothing was appended and
\* no request issued since it was submitted), and loading is on exactly
\* while a call is in flight.
C3_OneQueryInFlight ==
    /\ Len(calls) <= 1
    /\ loading <=> calls # << >>
    /\ loading =>
           /\ LastMessage.type = "user"
           /\ LastMessage.content = calls[1].query

\* C3, its case: a query is in flight while the draft holds a non-blank text
\* that a second submit would send
C3_Witness ==
    /\ mounted = "Chat"
    /\ loading
    /\ Len(calls) = 1
    /\ trim(query) # ""
    /\ query # calls[1].query

\* C6: the number of turns held in the session history never exceeds the
\* configured maximum turn count.
C6_HistoryBounded == Len(messages) <= MaxContextTurns

\* C9: every started query eventually completes: loading, once set, is
\* eventually reset.
C9_QueryEventuallyCompletes == loading ~> ~loading

(***************************************************************************)
(* Properties of the statistics of a result set.                           *)
(***************************************************************************)
\* the rows whose value in a column is a number, and that number
NumericRows(column) ==
    {i \in 1..Len(data) : typeof(RowValue(data[i], column)) = "number"}
NumberAt(i, column) == RowValue(data[i], column).n

RECURSIVE SumOver(_, _)
SumOver(rows, column) ==
    IF rows = {} THEN 0
    ELSE LET i == CHOOSE r \in rows : TRUE
         IN  NumberAt(i, column) + SumOver(rows \ {i}, column)

\* the sum over the rows of (n * value - total)^2, which is n^2 times the
\* sum of the squared deviations from the mean total / n
RECURSIVE ScaledSquaresOver(_, _, _, _)
ScaledSquaresOver(rows, column, n, total) ==
    IF rows = {} THEN 0
    ELSE LET i == CHOOSE r \in rows : TRUE
             d == n * NumberAt(i, column) - total
         IN  d * d + ScaledSquaresOver(rows \ {i}, column, n, total)

\* C10: for every column with a numeric value, the statistics the menu shows
\* are those of exactly the numeric values of the column: count is their
\* number, mean their sum divided by count, min and max their least and
\* greatest, and std the root of the sum of the squared deviations from the
\* mean divided by count (the population formula).
C10_StatisticsOfNumericValues ==
    statsAnchorEl =>
        \A j \in 1..Len(columns) :
            LET rows == NumericRows(columns[j])
                n == Cardinality(rows)
                total == SumOver(rows, columns[j])
                st == shownStats[j]
            IN  rows # {} =>
                    /\ ~st.none
                    /\ st.count = n
                    /\ st.mean.num * n = total * st.mean.den
                    /\ st.min.den = 1 /\ st.max.den = 1
                    /\ \E i \in rows : NumberAt(i, columns[j]) = st.min.num
                    /\ \E i \in rows : NumberAt(i, columns[j]) = st.max.num
                    /\ \A i \in rows : /\ st.min.num <= NumberAt(i, columns[j])
                                       /\ NumberAt(i, columns[j]) <= st.max.num
                    /\ st.std.sqrtOf.num * n * n * n =
                           ScaledSquaresOver(rows, columns[j], n, total) * st.std.sqrtOf.den

\* C10, its case: the menu shows a column that holds different numbers and a
\* value that is not a number, with a mean that is no integer
C10_Witness ==
    /\ statsAnchorEl
    /\ \E j \in 1..Len(columns) :
           /\ ~shownStats[j].none
           /\ shownStats[j].count >= 2
           /\ shownStats[j].count < Len(data)
           /\ shownStats[j].mean.den > 1
           /\ shownStats[j].std.sqrtOf.num > 0

(***************************************************************************)
(* Properties of the query-generation core.                                *)
(***************************************************************************)
\* a rejected check is the only call the step adds to the trace
RejectedStep ==
    /\ Len(trace') = Len(trace) + 1
    /\ trace'[Len(trace')].op = "check"
    /\ ~trace'[Len(trace')].verdict.valid

StandaloneAt(s, upper, k, i) ==
    LET j == i + Len(k) - 1
    IN  /\ j <= Len(s)
        /\ SubSeq(upper, i, j) = k
        /\ i = 1 \/ ~IsIdentChar(SubSeq(s, i - 1, i - 1))
        /\ j = Len(s) \/ ~IsIdentChar(SubSeq(s, j + 1, j + 1))

HasStandaloneKeyword(s) ==
    LET upper == toUpperCase(s)
    IN  \E k \in MutatingKeywords, i \in 1..Len(s) : StandaloneAt(s, upper, k, i)

HasKeywordSubstring(s) ==
    LET upper == toUpperCase(s)
    IN  \E k \in MutatingKeywords : Contains(upper, k)

\* the statements the model can answer with that have a mutating keyword as
\* a token of its own
KeywordStatements == {s \in CandidateSQL : HasStandaloneKeyword(s)}

IsKeywordStatement(s) ==
    IF s \in CandidateSQL THEN s \in KeywordStatements ELSE HasStandaloneKeyword(s)

Stamps(seq) == {seq[i].ts : i \in 1..Len(seq)}

C8_RetriesBoundedAndCounted ==
    LET calls_ == Len(modelLog)
    IN  /\ calls_ <= retryLimit + 1
        /\ \A i \in 1..(calls_ - 1) : modelLog[i] \in Transient
        /\ pc = "generate" => calls_ <= retryLimit
        /\ (calls_ > 0 /\ modelLog[calls_] \in Transient /\ pc # "generate") =>
               /\ pc = "idle"
               /\ calls_ = retryLimit + 1
               /\ result.tag = "GenerationError"
               /\ result.retries = retryLimit
        /\ (calls_ > 0 /\ modelLog[calls_] \in NonTransient) =>
               /\ pc = "idle"
               /\ result.tag = "GenerationError"
               /\ result.retries = calls_ - 1
               /\ modelLog[1] \in NonTransient => result.retries = 0

\* C8, its case: under the default policy every retry has failed
C8_Witness ==
    /\ retryLimit = DefaultRetries
    /\ Len(modelLog) = 4
    /\ modelLog[4] \in Transient
    /\ result.tag = "GenerationError"
    /\ result.retries = 3

(***************************************************************************)
(* Properties of an empty result set and of columns without numbers.       *)
(***************************************************************************)
\* a number that is the result of no division by zero
Finite(x) == x.den # 0

\* C11: for an empty result set nothing is computed: the table renders
\* nothing, the statistics menu cannot be open and the chat shows "No results
\* found."; in an open menu a column without a numeric value has no
\* statistics, and every statistic shown has a count of at least one and is
\* the result of no division by zero.
C11_NoStatisticsWithoutNumbers ==
    /\ Len(data) = 0 =>
           /\ ~statsAnchorEl
           /\ shownStats = << >>
           /\ ResultsTableView(data) = "null"
           /\ resultsView(data) = "No results found."
    /\ statsAnchorEl =>
           \A j \in 1..Len(columns) :
               IF NumericRows(columns[j]) = {}
               THEN shownStats[j] = NoStats
               ELSE /\ ~shownStats[j].none
                    /\ shownStats[j].count >= 1
                    /\ Finite(shownStats[j].mean)
                    /\ Finite(shownStats[j].min)
                    /\ Finite(shownStats[j].max)
                    /\ Finite(shownStats[j].std.sqrtOf)

\* C11, its case: the menu is open on a result set with a column that holds
\* no number
C11_Witness ==
    /\ statsAnchorEl
    /\ \E j \in 1..Len(columns) :
           NumericRows(columns[j]) = {} /\ shownStats[j] = NoStats

(***************************************************************************)
(* Properties of the EntityMemory, of reset and of PromptBuilder.          *)
(***************************************************************************)
\* C12: no step but a reset takes an entity out of the EntityMemory: after
\* every append the memory is a superset of the memory before, also when the
\* append evicts turns; the entities of every turn given to the context
\* since the last reset, evicted or not, are in the memory.
C12_EntityMemoryOnlyGrows ==
    /\ [](/\ \A i \in 1..Len(turns) : entityHits(turns[i].text) \subseteq entities
          /\ \A i \in 1..Len(evicted) : entityHits(evicted[i].text) \subseteq entities)
    /\ [][entities \subseteq entities' \/ (result'.tag = "void" /\ entities' = {})]_vars

\* C12, its case: the memory holds an entity that only evicted turns mention
C12_Witness ==
    /\ evicted # << >>
    /\ \E e \in entities : \A i \in 1..Len(turns) : e \notin entityHits(turns[i].text)

\* C13: after a reset the session has no turns, an empty EntityMemory and
\* nothing else of its state; a reset of the reset state is that state
\* again, and the reset of a session without state is the session without
\* state.
C13_ResetIdempotent ==
    /\ result.tag = "void" => (Session = EmptySession /\ turns = << >> /\ entities = {})
    /\ reset(reset(Session)) = reset(Session)
    /\ reset(EmptySession) = EmptySession

\* C13, its case: a reset has returned
C13_Witness ==
    /\ result.tag = "void"
    /\ turns = << >>
    /\ entities = {}

\* the context with every timestamp moved by shift
restamp(ctx, shift) == [i \in 1..Len(ctx) |-> [ctx[i] EXCEPT !.ts = @ + shift]]

\* C14: while a call is in progress, the prompt built for it is the prompt
\* any other build gives for the same context and query text, at any other
\* time and with other timestamps on the turns.
C14_PromptIndependentOfTime ==
    pc # "idle" =>
        \A now \in 0..(clock + 1), shift \in 0..1 :
            build(restamp(turns, shift), queryText, now) = prompt

\* C14, its case: a prompt has been built over a context with history
C14_Witness ==
    /\ pc = "generate"
    /\ Len(turns) >= 2
    /\ prompt # ""

(***************************************************************************)
(* Properties of the suggestion panel.                                     *)
(***************************************************************************)
\* every candidate is the text of a user turn
AllAsked ==
    \A i \in 1..Len(VALID_QUESTIONS) : includes(askedQuestions, VALID_QUESTIONS[i])

\* C15: once every candidate has been asked the suggestions are the empty
\* list, the panel shows the placeholder "No more suggestions", and the send
\* button stays usable for a typed query whenever no query is in flight.
C15_EmptySuggestionsNoError ==
    AllAsked =>
        /\ contextSuggestions = << >>
        /\ suggestionPanel = << "No more suggestions" >>
        /\ (~loading /\ trim(query) # "") => (mounted = "Chat" /\ ~SendDisabled)

\* C15, its case: every candidate has been asked and a further query has
\* been accepted and answered
C15_Witness ==
    /\ AllAsked
    /\ Cardinality(UserTurns(messages)) > Cardinality({VALID_QUESTIONS[i] : i \in 1..Len(VALID_QUESTIONS)})
    /\ ~loading
    /\ contextSuggestions = << >>

\* the entities each candidate and each typed text refers to
questionEntities ==
    [q \in {VALID_QUESTIONS[i] : i \in 1..Len(VALID_QUESTIONS)} \cup TypedTexts
        |-> extractEntities(q)]

\* the entities mentioned in the most recent user turn
recentEntities ==
    IF askedQuestions = << >> THEN {}
    ELSE LET last == askedQuestions[Len(askedQuestions)]
         IN  IF last \in DOMAIN questionEntities THEN questionEntities[last]
             ELSE extractEntities(last)

\* 1 for a candidate that refers to an entity of the most recent turn, else 0
rank(q) == IF questionEntities[q] \cap recentEntities # {} THEN 1 ELSE 0

\* whether candidate p stands before candidate q in the template list (a
\* candidate the list holds twice stands where either copy stands)
templateOrder(p, q) ==
    \E a, b \in 1..Len(VALID_QUESTIONS) :
        a <= b /\ VALID_QUESTIONS[a] = p /\ VALID_QUESTIONS[b] = q

\* C16: in the suggestion list no candidate that refers to an entity of the
\* most recent turn comes after one that does not, and candidates of equal
\* rank keep their template order.
C16_RecentEntitiesRankFirst ==
    \A i, j \in 1..Len(contextSuggestions) :
        (mounted = "Chat" /\ i < j) =>
            /\ rank(contextSuggestions[i]) >= rank(contextSuggestions[j])
            /\ rank(contextSuggestions[i]) = rank(contextSuggestions[j])
                   => templateOrder(contextSuggestions[i], contextSuggestions[j])

(***************************************************************************)
(* Properties of the turns of the history.                                 *)
(***************************************************************************)
\* C17: no two user entries of the history stand in immediate succession
\* (with identical text or not): every user entry but the last is followed
\* by a system entry (sql, results, analysis or error) of its own turn.
C17_NoUserTurnsInSuccession ==
    \A i \in 1..(Len(messages) - 1) :
        messages[i].type = "user" =>
            messages[i + 1].type \in {"sql", "error"}

\* C17, its case: in ChatWindow the same text was sent twice, and system
\* entries of the first turn stand between the two user entries
C17_Witness ==
    /\ mounted = "ChatWindow"
    /\ \E i, j \in UserTurns(messages) :
           /\ i + 1 < j
           /\ messages[i].content = messages[j].content
           /\ \A k \in (i + 1)..(j - 1) : messages[k].type # "user"

\* the draft of the mounted component: query in Chat, message in MessageInput
Draft == IF mounted = "Chat" THEN query ELSE message

\* a step that leaves the history, the requests in flight and loading alone
SubmitRejected ==
    /\ messages' = messages
    /\ calls' = calls
    /\ loading' = loading

\* C18: a draft that is empty or only white space is never sent: while no
\* query is in flight and the draft is blank no step appends a user entry,
\* issues a request or changes loading (the draft changes only by typing),
\* so no user entry and no request ever carries a blank text.
C18_BlankQueryRejected ==
    /\ [](\A i \in UserTurns(messages) : trim(messages[i].content) # "")
    /\ [](\A i \in 1..Len(calls) : trim(calls[i].query) # "")
    /\ [][(~loading /\ trim(Draft) = "") => SubmitRejected]_vars

\* C18, its case: in a session that has answered a query the draft holds
\* white space only, and nothing is in flight
C18_Witness ==
    /\ Draft = "  "
    /\ ~loading
    /\ UserTurns(messages) # {}
    /\ calls = << >>

\* C19: no question appears twice among the suggestions shown.
C19_NoSuggestionTwice ==
    mounted = "Chat" =>
        \A i, j \in 1..Len(suggestionPanel) :
            suggestionPanel[i] = suggestionPanel[j] => i = j

(***************************************************************************)
(* Properties of the connect page.                                         *)
(***************************************************************************)
\* all four credentials are given: server, database and username are not
\* blank after trimming and the password is not empty
Complete(f) ==
    /\ trim(f.server) # ""
    /\ trim(f.database) # ""
    /\ trim(f.username) # ""
    /\ f.password # ""

\* whether field name of the form f is missing
Missing(f, name) == IF name = "password" THEN f[name] = "" ELSE trim(f[name]) = ""

\* C20: a connect request is sent only with all four credentials (every
\* request in flight carries a complete form, and a step that sends one
\* starts from a complete form); a submit of an incomplete form, the only
\* step that records errors, sends nothing, records an error for exactly the
\* missing fields and leaves loading, success and the session storage
\* unchanged.
C20_ConnectRequiresAllCredentials ==
    /\ [](\A i \in 1..Len(connects) : Complete(connects[i]))
    /\ [][Len(connects') > Len(connects) => Complete(form)]_vars
    /\ [][(form' = form /\ errors' # errors) =>
              /\ ~Complete(form)
              /\ \A name \in Fields : errors'[name] # "" <=> Missing(form, name)
              /\ UNCHANGED << connects, connectLoading, success, sessionStorage >>]_vars

\* C20, its case: after a successful attempt a submit without password (the
\* other fields given) was refused with the one error, nothing is in flight
C20_Witness ==
    /\ sessionStorage.db_connected = "true"
    /\ errors.password # ""
    /\ errors.server = ""
    /\ errors.database = ""
    /\ errors.username = ""
    /\ form.password = ""
    /\ connects = << >>
    /\ ~connectLoading

(***************************************************************************)
(* Properties of the session storage.                                      *)
(***************************************************************************)
\* the JSON member "password":"p" of a stored object
passwordMember(p) == "\"password\":\"" \o p \o "\""

\* whether an item of the session storage holds a password that was entered
HoldsPassword(item) ==
    \E p \in PasswordTexts : p # "" /\ (item = p \/ Contains(item, passwordMember(p)))

\* C21: no item of the session storage (db_connected, db_name,
\* dbConnection) ever holds the password entered in a connect form.
C21_PasswordNeverStored ==
    /\ ~HoldsPassword(sessionStorage.db_connected)
    /\ ~HoldsPassword(sessionStorage.db_name)
    /\ ~HoldsPassword(dbConnection)

(***************************************************************************)
(* Properties of the message list.                                         *)
(***************************************************************************)
\* the type of the i-th entry of the history, "none" outside of it
TypeAt(i) == IF i \in 1..Len(messages) THEN messages[i].type ELSE "none"

\* the history is a sequence of turns: a user entry, then sql, results,
\* analysis or one error entry (nothing yet for the turn in progress)
TurnOrdered ==
    \A i \in 1..Len(messages) :
        CASE TypeAt(i) = "user" -> TypeAt(i + 1) \in {"sql", "error", "none"}
          [] TypeAt(i) = "sql" -> TypeAt(i - 1) = "user" /\ TypeAt(i + 1) = "results"
          [] TypeAt(i) = "results" -> TypeAt(i - 1) = "sql" /\ TypeAt(i + 1) = "analysis"
          [] TypeAt(i) = "analysis" ->
                 TypeAt(i - 1) = "results" /\ TypeAt(i + 1) \in {"user", "none"}
          [] TypeAt(i) = "error" ->
                 TypeAt(i - 1) = "user" /\ TypeAt(i + 1) \in {"user", "none"}
          [] OTHER -> FALSE

\* a step that only appends to the history
AppendOnly ==
    /\ Len(messages') >= Len(messages)
    /\ SubSeq(messages', 1, Len(messages)) = messages

UserEntryAppended ==
    /\ Len(messages') = Len(messages) + 1
    /\ messages'[Len(messages')].type = "user"

\* a step in which a query handler leaves: its call is no longer in flight
HandlerExits == Len(calls') < Len(calls)

\* C23: loading is on exactly while a query is outstanding: the step that
\* appends a user entry starts from loading off and turns it on, and every
\* step in which a handler exits (answer, error or simulated answer) has
\* appended the entries of the turn and leaves loading off.
C23_LoadingWhileOutstanding ==
    /\ [](loading <=> Len(calls) > 0)
    /\ [][UserEntryAppended => (~loading /\ loading' /\ Len(calls') = Len(calls) + 1)]_vars
    /\ [][HandlerExits =>
              (loading /\ ~loading' /\ messages'[Len(messages')].type \in {"analysis", "error"})]_vars

\* C23, its case: in Chat a simulated answer and a back-end error have both
\* ended their turns, and the input is enabled
C23_Witness ==
    /\ mounted = "Chat"
    /\ Len(messages) = 6
    /\ toLowerCase(messages[1].content) = "show all employees"
    /\ TypeAt(4) = "analysis"
    /\ TypeAt(6) = "error"
    /\ ~loading
    /\ calls = << >>

(***************************************************************************)
(* Properties of a connection attempt.                                     *)
(***************************************************************************)
\* a step that starts an attempt, and a step that ends one
AttemptStarts == Len(connects') > Len(connects)
AttemptEnds == Len(connects') < Len(connects)

\* C24: on the connect page success and a non-empty errorMsg are never set
\* together: the submit that starts an attempt clears both, the end of the
\* attempt sets exactly one of them, and loading is off whenever no attempt
\* is in progress.
C24_SuccessExcludesError ==
    /\ [](~(success /\ errorMsg # ""))
    /\ [](connectLoading <=> Len(connects) > 0)
    /\ [][AttemptStarts => (~success' /\ errorMsg' = "")]_vars
    /\ [][AttemptEnds => (~connectLoading' /\ (success' <=> errorMsg' = ""))]_vars

\* C24, its case: an attempt has failed after an earlier one had succeeded;
\* the error is shown, the success flag is off
C24_Witness ==
    /\ sessionStorage.db_connected = "true"
    /\ errorMsg # ""
    /\ ~success
    /\ ~connectLoading
    /\ connects = << >>

\* C25: the session storage marks the session connected only if the most
\* recent attempt succeeded: while the error of a failed attempt is shown
\* db_connected is not 'true', and while the success of an attempt is shown
\* db_connected is 'true' with a db_name that is a database name.
C25_ConnectedOnlyAfterSuccess ==
    /\ (errorMsg # "" /\ ~connectLoading) => sessionStorage.db_connected # "true"
    /\ success =>
           /\ sessionStorage.db_connected = "true"
           /\ sessionStorage.db_name \in DatabaseTexts
           /\ trim(sessionStorage.db_name) # ""

(***************************************************************************)
(* Properties of the schema explorer.                                      *)
(***************************************************************************)
\* C26: once no sample request is outstanding the sample rows shown are
\* those of the selected table, or there are none.
C26_SampleOfSelectedTable ==
    sampleCalls = << >> =>
        \/ sampleData.null
        \/ sampleData = sampleOf(selectedTable)

(***************************************************************************)
(* Properties of the autocomplete.                                         *)
(***************************************************************************)
\* C27: once every suggestion request has answered, the autocomplete options
\* are those answered for the current input, and there are none while the
\* input is blank.
C27_SuggestionsFollowInput ==
    (mounted = "Chat" /\ pending = << >>) =>
        IF trim(query) = "" THEN suggestions = << >> ELSE suggestionsFor = query

=============================================================================
